---- MODULE Spec2Model ----
(***************************************************************************)
(* Mortalidad en Antioquia (src/app.py): the module-level load of the two  *)
(* tables, their join, the year list, and the Dash callbacks that answer   *)
(* a year selection with a per-municipality table or a top-10 list.        *)
(*                                                                         *)
(* Encodings.  A text cell is a sequence of digits or a TLA+ string; a     *)
(* municipality code such as "05002" is <<0,5,0,0,2>>, so that reading it  *)
(* as a number and formatting it again loses the leading zero.  A          *)
(* municipality name is a string of Names, which lists the names in        *)
(* alphabetical order (pandas orders group keys by that order).  A rate is *)
(* an integer number of tenths; a mean is the exact fraction               *)
(* [num, den], den = 0 standing for NaN.  A DataFrame is                   *)
(* [columns |-> set of column names, rows |-> sequence of records].        *)
(***************************************************************************)
EXTENDS Integers, Sequences, FiniteSets, TLC

VARIABLES
    csv,            \* the file at ruta_dataset: [estado, columns, rows]
    shp,            \* the file at ruta_shapefile: [estado, columns, rows]
    quicksort,      \* how this build's numpy quicksort leaves equal keys
    pc,             \* "boot" | "failed" | "serving"
    dataset,        \* module-level tables of app.py
    gdf,
    df_merge,
    lista_anios,
    loaded,         \* history: the four tables as they were when startup ended
    served,         \* history: some response has already been written
    last            \* the last callback invocation and what it returned

vars == <<csv, shp, quicksort, pc, dataset, gdf, df_merge, lista_anios, loaded,
          served, last>>

---------------------------------------------------------------------------
(* Bounds of the input tables *)

MaxMuni == 11

MaxExtra == 1

---------------------------------------------------------------------------
(* Generic helpers *)

Range(s) == {s[i] : i \in DOMAIN s}

RECURSIVE SumSeq(_)
SumSeq(s) == IF s = <<>> THEN 0 ELSE Head(s) + SumSeq(Tail(s))

RECURSIVE Concat(_)
Concat(ss) == IF ss = <<>> THEN <<>> ELSE Head(ss) \o Concat(Tail(ss))

Take(s, n) == SubSeq(s, 1, IF n < Len(s) THEN n ELSE Len(s))

Reverse(s) == [i \in 1..Len(s) |-> s[Len(s) + 1 - i]]

RECURSIVE Digits(_)
Digits(n) == IF n < 10 THEN <<n>> ELSE Append(Digits(n \div 10), n % 10)

\* Exact fractions [num, den] with den >= 0; den = 0 is NaN.
Frac(n, d) == [num |-> n, den |-> d]

NaN == Frac(0, 0)

FracEq(a, b) == a.num * b.den = b.num * a.den

FracLt(a, b) == a.num * b.den < b.num * a.den

FracLe(a, b) == a.num * b.den <= b.num * a.den

---------------------------------------------------------------------------
(* The data the files can hold *)

TodosLosAnios == [todos |-> TRUE, anio |-> 0]

Anio(y) == [todos |-> FALSE, anio |-> y]

Years == {2020, 2021}

\* NombreMunicipio values, in alphabetical order.
Names == <<"ABEJORRAL", "ABRIAQUI", "ALEJANDRIA", "AMAGA", "AMALFI", "ANDES",
           "ANGELOPOLIS", "ANGOSTURA", "ANORI", "ANZA", "APARTADO",
           "ARBOLETES", "ARGELIA", "ARMENIA", "BARBOSA", "ZARAGOZA">>

NameRanks == [n \in Range(Names) |-> CHOOSE i \in DOMAIN Names : Names[i] = n]

\* The place of a name in the alphabetical order.
NameRank(n) == NameRanks[n]

\* The municipality numbers of Names, in the same order (DIVIPOLA 05xxx).
Divipola == <<2, 4, 21, 30, 31, 34, 36, 38, 40, 44, 45, 51, 55, 59, 79, 895>>

\* The code as text, zero-padded: "05002".
CodigoTexto(i) == <<0>> \o Digits(5000 + Divipola[i])

\* The same code held in a numeric field: 5002.
CodigoNumero(i) == 5000 + Divipola[i]

StrCell(t) == [dtype |-> "str", v |-> t]

IntCell(n) == [dtype |-> "int", v |-> n]

\* NumeroCasos and TasaXMilHabitantes (tenths) of the i-th municipality's
\* 2020 record, per profile.
CasosPerfil ==
    [mixto  |-> <<120, 45, 300, 45, 120, 7, 300, 0, 45, 9, 120, 300, 45, 7, 9, 0>>,
     empate |-> <<5, 5, 5, 5, 5, 5, 5, 5, 5, 5, 5, 5, 5, 5, 5, 5>>]

TasaPerfil ==
    [mixto  |-> <<10, 20, 35, 20, 10, 7, 35, 0, 20, 9, 10, 35, 20, 7, 9, 0>>,
     empate |-> <<20, 20, 20, 20, 20, 20, 20, 20, 20, 20, 20, 20, 20, 20, 20, 20>>]

Perfiles == {"mixto", "empate"}

Registro(cod, nom, y, casos, tasa) ==
    [CodigoMunicipio |-> cod, NombreMunicipio |-> nom, Anio |-> y,
     NumeroCasos |-> casos, TasaXMilHabitantes |-> tasa]

\* One 2020 record for each of the first k municipalities.
Base(k, p) ==
    [i \in 1..k |-> Registro(CodigoTexto(i), Names[i], 2020,
                             CasosPerfil[p][i], TasaPerfil[p][i])]

\* Records that may follow: a second record of a municipality and year, a
\* second year, one name under two codes, a code with no boundary.
ExtraRows ==
    { Registro(CodigoTexto(1), Names[1], 2020, 7, 30),
      Registro(CodigoTexto(1), Names[1], 2021, 7, 30),
      Registro(CodigoTexto(2), Names[1], 2020, 7, 30),
      Registro(CodigoTexto(16), Names[16], 2021, 7, 30) }

RECURSIVE SeqsUpTo(_, _)
SeqsUpTo(S, n) ==
    IF n = 0 THEN {<<>>}
    ELSE LET shorter == SeqsUpTo(S, n - 1)
         IN shorter \cup {Append(s, e) : s \in {t \in shorter : Len(t) = n - 1}, e \in S}

CsvColumns == {"CodigoMunicipio", "NombreMunicipio", "Anio", "NumeroCasos",
               "TasaXMilHabitantes"}

ShpColumns == {"DPTO_CCDGO", "MPIO_CDPMP", "MPIO_CNMBR", "geometry"}

Geometria(crs, id) == [crs |-> crs, shape |-> id]

Limite(dpto, cod, nom, id) ==
    [DPTO_CCDGO |-> dpto, MPIO_CDPMP |-> cod, MPIO_CNMBR |-> nom,
     geometry |-> Geometria(4686, id)]

\* The boundaries of the first MaxMuni municipalities of department "05".
LimitesAntioquia ==
    [i \in 1..MaxMuni |-> Limite("05", StrCell(CodigoTexto(i)), Names[i], i)]

\* A boundary of another department.
LimiteAtlantico == Limite("08", StrCell(<<0, 8, 0, 0, 1>>), "BARRANQUILLA", 100)

ShpVariants ==
    { \* as published, with a boundary of another department among them
      <<LimiteAtlantico>> \o LimitesAntioquia,
      \* the boundaries in the opposite order, one code carried by two rows
      <<Limite("05", StrCell(CodigoTexto(1)), Names[1], 101)>>
          \o Reverse(LimitesAntioquia) \o <<LimiteAtlantico>>,
      \* the code stored in a numeric field
      [i \in 1..MaxMuni |-> Limite("05", IntCell(CodigoNumero(i)), Names[i], i)] }

---------------------------------------------------------------------------
(* pandas / geopandas operations used by the module-level load *)

DataFrame(cols, rows) == [columns |-> cols, rows |-> rows]

Pendiente == DataFrame({}, <<>>)

\* pd.read_csv(ruta_dataset, dtype={"CodigoMunicipio": str}): the code column
\* keeps the text of the file, leading zero included.
read_csv(file) == DataFrame(file.columns, file.rows)

\* gpd.read_file(ruta_shapefile)
read_file(file) == DataFrame(file.columns, file.rows)

\* gdf[gdf["DPTO_CCDGO"] == "05"][["MPIO_CDPMP", "MPIO_CNMBR", "geometry"]]
FiltrarDepartamento(df) ==
    DataFrame({"MPIO_CDPMP", "MPIO_CNMBR", "geometry"},
              LET keep == SelectSeq(df.rows, LAMBDA r : r.DPTO_CCDGO = "05")
              IN [i \in 1..Len(keep) |->
                    [MPIO_CDPMP |-> keep[i].MPIO_CDPMP,
                     MPIO_CNMBR |-> keep[i].MPIO_CNMBR,
                     geometry   |-> keep[i].geometry]])

\* gdf.to_crs(epsg=4326)
to_crs(df, epsg) ==
    DataFrame(df.columns,
              [i \in 1..Len(df.rows) |->
                 [df.rows[i] EXCEPT !.geometry = Geometria(epsg, @.shape)]])

\* str(x) of one cell: text stays, a number is written in decimal.
str(cell) == IF cell.dtype = "int" THEN Digits(cell.v) ELSE cell.v

\* gdf["MPIO_CDPMP"] = gdf["MPIO_CDPMP"].astype(str)
astype_str(df) ==
    DataFrame(df.columns,
              [i \in 1..Len(df.rows) |->
                 [df.rows[i] EXCEPT !.MPIO_CDPMP = str(@)]])

JoinedRow(l, r) ==
    [MPIO_CDPMP |-> l.MPIO_CDPMP, MPIO_CNMBR |-> l.MPIO_CNMBR,
     geometry |-> l.geometry,
     CodigoMunicipio |-> r.CodigoMunicipio, NombreMunicipio |-> r.NombreMunicipio,
     Anio |-> r.Anio, NumeroCasos |-> r.NumeroCasos,
     TasaXMilHabitantes |-> r.TasaXMilHabitantes]

\* The joined rows of one left row: its matches in the right table, in the
\* right table's order.
RowsOfLeft(l, rightRows) ==
    LET m == SelectSeq(rightRows, LAMBDA r : r.CodigoMunicipio = l.MPIO_CDPMP)
    IN [j \in 1..Len(m) |-> JoinedRow(l, m[j])]

Indices(s) == [i \in 1..Len(s) |-> i]

\* Inner join, rows in the order of the left rows (pandas >= 2.2, as documented:
\* "preserve the order of the left keys").
MergeByLeftRows(leftRows, rightRows) ==
    Concat([i \in 1..Len(leftRows) |-> RowsOfLeft(leftRows[i], rightRows)])

\* Inner join as pandas < 2.2 returns it: grouped by key, the keys in the
\* order of their first left row.
MergeByLeftKeys(leftRows, rightRows) ==
    LET firsts == SelectSeq(Indices(leftRows),
                     LAMBDA i : \A j \in 1..(i - 1) :
                                   leftRows[j].MPIO_CDPMP # leftRows[i].MPIO_CDPMP)
        group(i) == SelectSeq(leftRows,
                     LAMBDA l : l.MPIO_CDPMP = leftRows[i].MPIO_CDPMP)
    IN Concat([g \in 1..Len(firsts) |->
                 MergeByLeftRows(group(firsts[g]), rightRows)])

MergeOrders == {"left rows", "left keys"}

\* Mutant: dataset.merge(gdf, ...), the record table on the left.
merge_por_registros(left, right, order) ==
    DataFrame(left.columns \cup right.columns,
              Concat([i \in 1..Len(right.rows) |->
                        LET m == SelectSeq(left.rows, LAMBDA l :
                                    l.MPIO_CDPMP = right.rows[i].CodigoMunicipio)
                        IN [j \in 1..Len(m) |-> JoinedRow(m[j], right.rows[i])]]))

\* gdf.merge(dataset, left_on="MPIO_CDPMP", right_on="CodigoMunicipio")
merge(left, right, order) ==
    DataFrame(left.columns \cup right.columns,
              IF order = "left rows"
              THEN MergeByLeftRows(left.rows, right.rows)
              ELSE MergeByLeftKeys(left.rows, right.rows))

RECURSIVE SortedInts(_)
SortedInts(S) ==
    IF S = {} THEN <<>>
    ELSE LET m == CHOOSE x \in S : \A y \in S : x <= y
         IN <<m>> \o SortedInts(S \ {m})

\* ["Todos los anios"] + sorted(df["Anio"].unique().tolist())
OpcionesDe(df) ==
    LET ys == SortedInts({df.rows[i].Anio : i \in DOMAIN df.rows})
    IN <<TodosLosAnios>> \o [i \in 1..Len(ys) |-> Anio(ys[i])]

\* Mutant: the options come from the record table.
ListaAnios_dataset(d, m) == OpcionesDe(d)

\* Line 31, with the tables `dataset` (d) and `df_merge` (m) in scope: the
\* options come from the joined table.
ListaAnios(d, m) == OpcionesDe(m)

Tables(d, g, m, l) == [dataset |-> d, gdf |-> g, df_merge |-> m, lista_anios |-> l]

NoTables == Tables(Pendiente, Pendiente, Pendiente, <<>>)

NoCall == [cb |-> "none", anio |-> TodosLosAnios, error |-> "none",
           agg |-> <<>>, out |-> <<>>]

\* Lines 20-36 raise before `app` exists: a file that cannot be read, or a
\* column the load itself touches.
LoadRaises ==
    \/ csv.estado # "ok"                               \* line 20
    \/ shp.estado # "ok"                               \* line 23
    \/ ~({"DPTO_CCDGO", "MPIO_CDPMP", "MPIO_CNMBR", "geometry"}
           \subseteq shp.columns)                      \* line 24
    \/ "CodigoMunicipio" \notin csv.columns            \* line 29
    \/ "Anio" \notin csv.columns                       \* line 31

\* The module body, lines 16-37.
Startup ==
    /\ pc = "boot"
    /\ IF LoadRaises
       THEN /\ pc' = "failed"
            /\ UNCHANGED <<dataset, gdf, df_merge, lista_anios, loaded>>
       ELSE \E order \in MergeOrders :
            LET d == read_csv(csv)
                g == astype_str(to_crs(FiltrarDepartamento(read_file(shp)), 4326))
                m == merge(g, d, order)
                l == ListaAnios(d, m)
            IN /\ dataset' = d
               /\ gdf' = g
               /\ df_merge' = m
               /\ lista_anios' = l
               /\ loaded' = Tables(d, g, m, l)
               /\ pc' = "serving"
    /\ UNCHANGED <<csv, shp, quicksort, served, last>>

---------------------------------------------------------------------------
(* pandas operations used by the callbacks *)

\* Mutant: the year filter is not applied.
Filtrar_todos(df, anio) == df.rows

\* df_merge if anio == "Todos los anios" else df_merge[df_merge["Anio"] == anio]
Filtrar(df, anio) ==
    IF anio.todos THEN df.rows
    ELSE SelectSeq(df.rows, LAMBDA r : r.Anio = anio.anio)

Column(r, col) ==
    IF col = "NumeroCasos" THEN r.NumeroCasos ELSE r.TasaXMilHabitantes

\* Series.mean() and Series.sum() of a group's cells.
Agg(how, cells) ==
    IF how = "mean" THEN Frac(SumSeq(cells), Len(cells)) ELSE Frac(SumSeq(cells), 1)

\* The group keys of groupby("NombreMunicipio"), sorted (sort=True).
GroupKeys(rows) ==
    LET ranks == SortedInts({NameRank(rows[i].NombreMunicipio) : i \in DOMAIN rows})
    IN [k \in 1..Len(ranks) |-> Names[ranks[k]]]

\* df.groupby("NombreMunicipio")[col].mean() / .sum(): one entry per key.
GroupBy(rows, col, how) ==
    LET keys == GroupKeys(rows)
        cells(n) == LET g == SelectSeq(rows, LAMBDA r : r.NombreMunicipio = n)
                    IN [i \in 1..Len(g) |-> Column(g[i], col)]
    IN [k \in 1..Len(keys) |->
          [NombreMunicipio |-> keys[k], value |-> Agg(how, cells(keys[k]))]]

\* The group keys of groupby(["NombreMunicipio", "geometry"]), sorted.
GroupKeys2(rows) ==
    LET pairs == {<<NameRank(rows[i].NombreMunicipio), rows[i].geometry.shape>> :
                     i \in DOMAIN rows}
        RECURSIVE Sorted(_)
        Sorted(S) ==
            IF S = {} THEN <<>>
            ELSE LET m == CHOOSE x \in S : \A y \in S :
                             \/ x[1] < y[1]
                             \/ x[1] = y[1] /\ x[2] <= y[2]
                 IN <<m>> \o Sorted(S \ {m})
    IN Sorted(pairs)

\* df_merge.groupby(["NombreMunicipio", "geometry"]).agg({col: how}).reset_index()
GroupBy2(rows, col, how) ==
    LET keys == GroupKeys2(rows)
        row(k) == LET g == SelectSeq(rows, LAMBDA r :
                              /\ r.NombreMunicipio = Names[k[1]]
                              /\ r.geometry.shape = k[2])
                  IN [NombreMunicipio |-> Names[k[1]],
                      geometry |-> g[1].geometry,
                      value |-> Agg(how, [i \in 1..Len(g) |-> Column(g[i], col)])]
    IN [j \in 1..Len(keys) |-> row(keys[j])]

\* numpy argsort, ascending, of entries [.., key]: "stable" leaves equal keys
\* in their input order; an unstable quicksort may leave them in another
\* order, here the opposite one.
RECURSIVE Insert(_, _, _)
Insert(sorted, e, kind) ==
    IF sorted = <<>> THEN <<e>>
    ELSE IF \/ kind = "stable" /\ FracLe(Head(sorted).key, e.key)
            \/ kind # "stable" /\ FracLt(Head(sorted).key, e.key)
         THEN <<Head(sorted)>> \o Insert(Tail(sorted), e, kind)
         ELSE <<e>> \o sorted

RECURSIVE Argsort(_, _)
Argsort(s, kind) ==
    IF s = <<>> THEN <<>>
    ELSE Insert(Argsort(SubSeq(s, 1, Len(s) - 1), kind), s[Len(s)], kind)

Keyed(series) ==
    [i \in 1..Len(series) |-> [i |-> i, key |-> series[i].value]]

\* Series.sort_values(ascending=...): nargsort reverses the input and the
\* result for a descending sort.
sort_values(series, ascending, kind) ==
    LET idx == IF ascending THEN Argsort(Keyed(series), kind)
               ELSE Reverse(Argsort(Reverse(Keyed(series)), kind))
    IN [j \in 1..Len(idx) |-> series[idx[j].i]]

Negate(f) == Frac(0 - f.num, f.den)

\* Series.nlargest(n) / Series.nsmallest(n), keep="first"
\* (pandas.core.methods.selectn.SelectNSeries.compute).
SelectN(series, n, method, kind) ==
    IF n <= 0 THEN <<>>
    ELSE IF n >= Len(series)
    THEN Take(sort_values(series, method = "nsmallest", kind), n)
    ELSE LET arr == [i \in 1..Len(series) |->
                       [i |-> i,
                        key |-> IF method = "nlargest"
                                THEN Negate(series[i].value)
                                ELSE series[i].value]]
             kth_val == Argsort(arr, "stable")[n].key
             ns == SelectSeq(arr, LAMBDA a : FracLe(a.key, kth_val))
             inds == Take(Argsort(ns, "stable"), n)       \* kind="mergesort"
         IN [j \in 1..Len(inds) |-> series[inds[j].i]]

TopN == 10

\* Mutant: the series is ranked but not cut to ten.
nlargest_sin_corte(series, kind) == sort_values(series, FALSE, kind)

nlargest(series, kind) == SelectN(series, TopN, "nlargest", kind)

\* Mutant: the "mas bajos" callbacks call nlargest.
nsmallest_copia(series, kind) == SelectN(series, TopN, "nlargest", kind)

nsmallest(series, kind) == SelectN(series, TopN, "nsmallest", kind)

\* Series.quantile(k/4), linear interpolation, of the sorted cells xs.
Quantile4(xs, k) ==
    IF xs = <<>> THEN NaN
    ELSE LET h == (Len(xs) - 1) * k
             lo == (h \div 4) + 1
             r == h % 4
         IN IF r = 0 THEN Frac(4 * xs[lo], 4)
            ELSE Frac(4 * xs[lo] + r * (xs[lo + 1] - xs[lo]), 4)

RECURSIVE SortCells(_)
SortCells(xs) ==
    IF xs = <<>> THEN <<>>
    ELSE LET m == CHOOSE i \in DOMAIN xs : \A j \in DOMAIN xs : xs[i] <= xs[j]
         IN <<xs[m]>> \o SortCells([j \in 1..(Len(xs) - 1) |->
                                      IF j < m THEN xs[j] ELSE xs[j + 1]])

\* resumen(x) of resumen_stats
resumen(cells) ==
    LET xs == SortCells(cells)
    IN [Minimo  |-> IF xs = <<>> THEN NaN ELSE Frac(xs[1], 1),
        Q1      |-> Quantile4(xs, 1),
        Mediana |-> Quantile4(xs, 2),
        Media   |-> Frac(SumSeq(xs), Len(xs)),
        Q3      |-> Quantile4(xs, 3),
        Maximo  |-> IF xs = <<>> THEN NaN ELSE Frac(xs[Len(xs)], 1)]

---------------------------------------------------------------------------
(* The callbacks, as functions of the joined table m they read *)

Returned(agg, out) == [error |-> "none", agg |-> agg, out |-> out]

Raised(e) == [error |-> e, agg |-> <<>>, out |-> <<>>]

\* resumen_stats(_), lines 138-154
ResumenStats(m) ==
    IF ~({"NumeroCasos", "TasaXMilHabitantes"} \subseteq m.columns)
    THEN Raised("KeyError")
    ELSE LET cells(col) == [i \in 1..Len(m.rows) |-> Column(m.rows[i], col)]
         IN Returned(<<>>,
               <<[Variable |-> "NumeroCasos", stats |-> resumen(cells("NumeroCasos"))],
                 [Variable |-> "TasaXMilHabitantes",
                  stats |-> resumen(cells("TasaXMilHabitantes"))]>>)

\* update_mapa_tasa(anio) and update_mapa_casos(anio), lines 161-191: the
\* table handed to px.choropleth, reduced to the columns the figure reads.
\* A column that is absent makes groupby, set_index or px.choropleth raise;
\* the model calls every such failure "KeyError".
Mapa(m, anio, col, how) ==
    IF ~({"NombreMunicipio", "geometry", col} \subseteq m.columns)
    THEN Raised("KeyError")
    ELSE LET df == IF anio.todos
                   THEN GroupBy2(m.rows, col, how)
                   ELSE LET f == Filtrar(m, anio)
                        IN [i \in 1..Len(f) |->
                              [NombreMunicipio |-> f[i].NombreMunicipio,
                               geometry |-> f[i].geometry,
                               value |-> Frac(Column(f[i], col), 1)]]
         IN Returned(df, df)

\* The four top-10 callbacks, lines 198-233: the grouped series and the
\* rows of the bar chart.
Top10(m, anio, col, how, method, kind) ==
    IF ~({"NombreMunicipio", col} \subseteq m.columns)
    THEN Raised("KeyError")
    ELSE LET series == GroupBy(Filtrar(m, anio), col, how)
         IN Returned(series,
                     IF method = "nlargest" THEN nlargest(series, kind)
                     ELSE nsmallest(series, kind))

RankedCallbacks == {"top10_tasa_alta", "top10_tasa_baja",
                    "top10_casos_alto", "top10_casos_bajo"}

MapCallbacks == {"update_mapa_tasa", "update_mapa_casos"}

Respond(cb, anio, m, kind) ==
    CASE cb = "resumen_stats"     -> ResumenStats(m)
      [] cb = "update_mapa_tasa"  -> Mapa(m, anio, "TasaXMilHabitantes", "mean")
      [] cb = "update_mapa_casos" -> Mapa(m, anio, "NumeroCasos", "sum")
      [] cb = "top10_tasa_alta"   -> Top10(m, anio, "TasaXMilHabitantes", "mean", "nlargest", kind)
      [] cb = "top10_tasa_baja"   -> Top10(m, anio, "TasaXMilHabitantes", "mean", "nsmallest", kind)
      [] cb = "top10_casos_alto"  -> Top10(m, anio, "NumeroCasos", "sum", "nlargest", kind)
      [] cb = "top10_casos_bajo"  -> Top10(m, anio, "NumeroCasos", "sum", "nsmallest", kind)

\* Mutant: the callback rebinds df_merge to its year-filtered rows.
GlobalsAfter_rebind(cb, anio) ==
    Tables(dataset, gdf, DataFrame(df_merge.columns, Filtrar(df_merge, anio)),
           lista_anios)

\* The module-level tables after a callback returns: no callback assigns a
\* module-level name or calls an in-place method on one.
GlobalsAfter(cb, anio) == Tables(dataset, gdf, df_merge, lista_anios)

\* The values a request can carry for `anio`.
Selectors == {TodosLosAnios} \cup {Anio(y) : y \in Years}

\* One request: Dash runs the callback and holds what it returned until the
\* response is written.
Call(cb, anio) ==
    /\ pc = "serving"
    /\ last = NoCall
    /\ LET r == Respond(cb, anio, df_merge, quicksort)
           g == GlobalsAfter(cb, anio)
       IN /\ last' = [cb |-> cb, anio |-> anio] @@ r
          /\ dataset' = g.dataset
          /\ gdf' = g.gdf
          /\ df_merge' = g.df_merge
          /\ lista_anios' = g.lista_anios
    /\ UNCHANGED <<csv, shp, quicksort, pc, loaded, served>>

resumen_stats == Call("resumen_stats", TodosLosAnios)

update_mapa_tasa(anio) == Call("update_mapa_tasa", anio)

update_mapa_casos(anio) == Call("update_mapa_casos", anio)

top10_tasa_alta(anio) == Call("top10_tasa_alta", anio)

top10_tasa_baja(anio) == Call("top10_tasa_baja", anio)

top10_casos_alto(anio) == Call("top10_casos_alto", anio)

top10_casos_bajo(anio) == Call("top10_casos_bajo", anio)

\* The response of the pending request is written to the browser; the
\* server takes the next request.
Respond_done ==
    /\ pc = "serving"
    /\ last # NoCall
    /\ last' = NoCall
    /\ served' = TRUE
    /\ UNCHANGED <<csv, shp, quicksort, pc, dataset, gdf, df_merge, lista_anios, loaded>>

---------------------------------------------------------------------------
(* Specifications *)

Boot ==
    /\ pc = "boot"
    /\ dataset = Pendiente
    /\ gdf = Pendiente
    /\ df_merge = Pendiente
    /\ lista_anios = <<>>
    /\ loaded = NoTables
    /\ served = FALSE
    /\ last = NoCall

File(estado, cols, rows) == [estado |-> estado, columns |-> cols, rows |-> rows]

\* Both files present with every column; the records and the boundaries vary.
\* The record file holds at least one record, so that pandas reads its
\* numeric columns as numbers.
InitDatos ==
    /\ \E rows \in ShpVariants : shp = File("ok", ShpColumns, rows)
    /\ quicksort \in {"stable", "unstable"}
    /\ \E k \in 1..MaxMuni, p \in Perfiles, extra \in SeqsUpTo(ExtraRows, MaxExtra) :
          csv = File("ok", CsvColumns, Base(k, p) \o extra)
    /\ Boot

Estados == {"ok", "missing", "unparseable"}

\* The files vary: present or not, and with any subset of the columns.  A
\* row of the model keeps a cell for every column; `columns` says which of
\* them the file has, and a column that is absent is never read.
InitColumnas ==
    /\ \E e \in Estados, cols \in SUBSET CsvColumns :
          csv = File(e, cols, Base(2, "mixto") \o
                        <<Registro(CodigoTexto(1), Names[1], 2021, 7, 30)>>)
    /\ \E e \in Estados, cols \in SUBSET ShpColumns :
          shp = File(e, cols, <<LimiteAtlantico>> \o LimitesAntioquia)
    /\ quicksort = "stable"
    /\ Boot

Next ==
    \/ Startup
    \/ resumen_stats
    \/ \E anio \in Selectors : update_mapa_tasa(anio)
    \/ \E anio \in Selectors : update_mapa_casos(anio)
    \/ \E anio \in Selectors : top10_tasa_alta(anio)
    \/ \E anio \in Selectors : top10_tasa_baja(anio)
    \/ \E anio \in Selectors : top10_casos_alto(anio)
    \/ \E anio \in Selectors : top10_casos_bajo(anio)
    \/ Respond_done

Spec == InitDatos /\ [][Next]_vars

SpecLoad == InitColumnas /\ [][Next]_vars

---------------------------------------------------------------------------
(* What the claims speak of, stated over the tables as sets of rows *)

\* The positions of the joined rows a year selector keeps.
Kept(anio) ==
    {i \in DOMAIN df_merge.rows : anio.todos \/ df_merge.rows[i].Anio = anio.anio}

\* The distinct NombreMunicipio of the year-filtered joined table.
Municipios(anio) == {df_merge.rows[i].NombreMunicipio : i \in Kept(anio)}

\* The kept rows of one municipality.
RowsOf(n, anio) == {i \in Kept(anio) : df_merge.rows[i].NombreMunicipio = n}

RECURSIVE Total(_, _)
Total(I, col) ==
    IF I = {} THEN 0
    ELSE LET i == CHOOSE x \in I : TRUE
         IN Column(df_merge.rows[i], col) + Total(I \ {i}, col)

Min(a, b) == IF a < b THEN a ELSE b

NamesOf(rows) == [i \in DOMAIN rows |-> rows[i].NombreMunicipio]

Answered(cbs) == last.cb \in cbs /\ last.error = "none"

RateCallbacks == {"top10_tasa_alta", "top10_tasa_baja"}

LargestCallbacks == {"top10_tasa_alta", "top10_casos_alto"}

\* The record columns of a joined row.
RecordOf(j) ==
    Registro(j.CodigoMunicipio, j.NombreMunicipio, j.Anio, j.NumeroCasos,
             j.TasaXMilHabitantes)

Count(rows, Test(_)) == Cardinality({i \in DOMAIN rows : Test(rows[i])})

\* Startup has just ended: the join has built df_merge and no request has
\* been served.
Loaded == pc = "serving" /\ ~served /\ last = NoCall

Matched(r) == \E b \in Range(gdf.rows) : b.MPIO_CDPMP = r.CodigoMunicipio

---------------------------------------------------------------------------
(* C1: in every map and top-10 callback the per-municipality table has     *)
(* exactly one row for each distinct NombreMunicipio of the year-filtered  *)
(* joined table: no name twice, none omitted.                              *)
C1_UnaFilaPorMunicipio ==
    Answered(MapCallbacks \cup RankedCallbacks) =>
        /\ Range(NamesOf(last.agg)) = Municipios(last.anio)
        /\ Len(last.agg) = Cardinality(Municipios(last.anio))

(* C2: each value a top-10 callback reports for a municipality is the mean *)
(* of TasaXMilHabitantes (rate callbacks) or the sum of NumeroCasos (case  *)
(* callbacks) over exactly that municipality's joined rows of the selected *)
(* year, or over all its rows under "Todos los anios".                     *)
C2_ValorPorMunicipio ==
    Answered(RankedCallbacks) =>
        \A e \in Range(last.out) :
            LET I == RowsOf(e.NombreMunicipio, last.anio)
            IN /\ I # {}
               /\ e.value.den > 0
               /\ IF last.cb \in RateCallbacks
                  THEN FracEq(e.value, Frac(Total(I, "TasaXMilHabitantes"), Cardinality(I)))
                  ELSE FracEq(e.value, Frac(Total(I, "NumeroCasos"), 1))

\* A rate list for one year that holds a municipality with a record in
\* another year as well.
C2_Witness ==
    /\ Answered(RateCallbacks)
    /\ ~last.anio.todos
    /\ \E e \in Range(last.out) :
          RowsOf(e.NombreMunicipio, TodosLosAnios) # RowsOf(e.NombreMunicipio, last.anio)

C4_Orden ==
    Answered(RankedCallbacks) =>
        LET out == last.out
            Le(a, b) == IF last.cb \in LargestCallbacks
                        THEN FracLe(b.value, a.value) ELSE FracLe(a.value, b.value)
            excluded == Range(last.agg) \ Range(out)
        IN /\ Range(out) \subseteq Range(last.agg)
           /\ \A i, j \in DOMAIN out : i < j => Le(out[i], out[j])
           /\ \A x \in excluded : \A e \in Range(out) : Le(e, x)
           /\ ( /\ last.cb = "top10_casos_alto"
                /\ [i \in DOMAIN last.agg |-> last.agg[i].value.num] = <<120, 45, 300>>
              ) => NamesOf(out) = <<last.agg[3].NombreMunicipio,
                                    last.agg[1].NombreMunicipio,
                                    last.agg[2].NombreMunicipio>>

\* A list cut to ten whose values differ and that leaves a municipality out.
C4_Witness ==
    /\ Answered(RankedCallbacks)
    /\ Len(last.out) = 10
    /\ Len(last.agg) > 10
    /\ ~FracEq(last.out[1].value, last.out[10].value)

(* C5: in every top-10 callback municipalities with equal values appear in *)
(* ascending order of name, and of municipalities tied across the tenth    *)
(* place the alphabetically smaller ones are kept.                         *)
C5_Desempate ==
    Answered(RankedCallbacks) =>
        LET out == last.out
        IN /\ \A i, j \in DOMAIN out :
                 (i < j /\ FracEq(out[i].value, out[j].value))
                     => NameRank(out[i].NombreMunicipio) < NameRank(out[j].NombreMunicipio)
           /\ \A x \in Range(last.agg) \ Range(out) : \A e \in Range(out) :
                 FracEq(x.value, e.value)
                     => NameRank(e.NombreMunicipio) < NameRank(x.NombreMunicipio)

(* C6: the join emits exactly one joined row for each mortality record     *)
(* whose code is the code of a boundary of department "05" and none for    *)
(* the other records, and every joined row's code is in both tables, even  *)
(* when a code occurs more than once in the boundary table.                *)
C6_UnaFilaPorRegistro ==
    Loaded =>
        /\ \A r \in Range(dataset.rows) :
              Count(df_merge.rows, LAMBDA j : RecordOf(j) = r)
                  = IF Matched(r) THEN Count(dataset.rows, LAMBDA x : x = r) ELSE 0
        /\ \A j \in Range(df_merge.rows) :
              /\ \E r \in Range(dataset.rows) : r.CodigoMunicipio = j.CodigoMunicipio
              /\ \E b \in Range(gdf.rows) : b.MPIO_CDPMP = j.CodigoMunicipio

\* js, read as records, is in the order of rs.
RECURSIVE InOrderOf(_, _)
InOrderOf(js, rs) ==
    IF js = <<>> THEN TRUE
    ELSE IF rs = <<>> THEN FALSE
    ELSE IF RecordOf(Head(js)) = Head(rs) THEN InOrderOf(Tail(js), rs)
    ELSE InOrderOf(js, Tail(rs))

(* C7: df_merge keeps the input order of the mortality records: the        *)
(* joined row of an earlier record precedes the joined row of a later one. *)
C7_OrdenDeRegistros ==
    Loaded => InOrderOf(df_merge.rows, dataset.rows)

\* The boundary row a joined row was built from, and the first boundary row
\* that carries a code.
BoundaryOf(j) == CHOOSE g \in DOMAIN gdf.rows : gdf.rows[g].geometry = j.geometry

FirstBoundary(cod) ==
    CHOOSE g \in DOMAIN gdf.rows :
        /\ gdf.rows[g].MPIO_CDPMP = cod
        /\ \A h \in 1..(g - 1) : gdf.rows[h].MPIO_CDPMP # cod

(* C7 as amended: df_merge follows the boundary table, not the record      *)
(* table.  The joined rows of one boundary row are its matching records in *)
(* record-table order, and a joined row whose boundary row comes before    *)
(* every boundary row carrying another joined row's code precedes it.      *)
C7_OrdenDeLimites ==
    Loaded =>
        /\ \A g \in DOMAIN gdf.rows :
              LET js == SelectSeq(df_merge.rows,
                           LAMBDA j : j.geometry = gdf.rows[g].geometry)
              IN [i \in 1..Len(js) |-> RecordOf(js[i])]
                   = SelectSeq(dataset.rows,
                        LAMBDA r : r.CodigoMunicipio = gdf.rows[g].MPIO_CDPMP)
        /\ LET from == [a \in DOMAIN df_merge.rows |-> BoundaryOf(df_merge.rows[a])]
               first == [b \in DOMAIN df_merge.rows |->
                           FirstBoundary(df_merge.rows[b].MPIO_CDPMP)]
           IN \A a, b \in DOMAIN df_merge.rows : from[a] < first[b] => a < b

\* A joined table that is not in record order, with two records of one
\* boundary.
C7_Witness ==
    /\ Loaded
    /\ ~InOrderOf(df_merge.rows, dataset.rows)
    /\ \E a, b \in DOMAIN df_merge.rows :
          a # b /\ df_merge.rows[a].geometry = df_merge.rows[b].geometry

(* C8: when a file is missing or unparseable, or a required column is      *)
(* absent, the load fails before the app and its callbacks exist; once     *)
(* startup completes no callback fails for a missing column.               *)
C8_CargaCompleta ==
    /\ pc = "serving" =>
          /\ csv.estado = "ok" /\ CsvColumns \subseteq csv.columns
          /\ shp.estado = "ok" /\ ShpColumns \subseteq shp.columns
    /\ last.error = "none"

(* C9: whatever callbacks have run, the tables dataset, gdf, df_merge and  *)
(* lista_anios are as startup left them, and what a callback returns is    *)
(* what it returns for that selector on the tables as startup left them.   *)
C9_TablasIntactas ==
    pc = "serving" =>
        /\ Tables(dataset, gdf, df_merge, lista_anios) = loaded
        /\ last # NoCall =>
              last = [cb |-> last.cb, anio |-> last.anio]
                        @@ Respond(last.cb, last.anio, loaded.df_merge, quicksort)

\* A ranked list returned after an earlier response, from a table of several
\* years.
C9_Witness ==
    /\ served
    /\ Answered(RankedCallbacks)
    /\ ~last.anio.todos
    /\ Len(last.out) >= 2
    /\ Kept(last.anio) # DOMAIN df_merge.rows

(* C10: every option of the year dropdowns is "Todos los anios" or a year  *)
(* of some row of df_merge, so that a year all of whose records the join   *)
(* dropped is not offered, and each option keeps at least one row when     *)
(* df_merge has any.                                                       *)
C10_Opciones ==
    pc = "serving" =>
        /\ lista_anios # <<>>
        /\ \A o \in Range(lista_anios) :
              /\ o = TodosLosAnios \/ \E j \in Range(df_merge.rows) : j.Anio = o.anio
              /\ df_merge.rows # <<>> => Kept(o) # {}
        /\ \A r \in Range(dataset.rows) :
              (\A j \in Range(df_merge.rows) : j.Anio # r.Anio)
                  => Anio(r.Anio) \notin Range(lista_anios)

\* The join dropped every record of one year and kept records of another.
C10_Witness ==
    /\ pc = "serving"
    /\ Len(lista_anios) >= 2
    /\ \E r \in Range(dataset.rows) : \A j \in Range(df_merge.rows) : j.Anio # r.Anio

====
